---- MODULE Spec2Model ----
(***************************************************************************)
(* A model of doot (src/doot/doot.py): the command registry built by the   *)
(* command(...) decorator, the dispatcher main(), and the runners run()    *)
(* and crun().                                                             *)
(*                                                                         *)
(* Python strings are sequences of one-character strings, so that the      *)
(* string operations of the code (replace, join, the " " in arg test,      *)
(* strip, split) are computed and not assumed.  An optional value (None or *)
(* a value) is a sequence of length 0 or 1.                                *)
(***************************************************************************)
EXTENDS Integers, Sequences, FiniteSets, TLC

VARIABLES
    pc,               \* "register" (module import / declarations), "done" (main has ended),
                      \* "runner" (a handler is about to call run or crun), "ran"
    subparsers,       \* argparse's name -> sub-parser map: [func, flags]
    parsers,          \* the module's registry: command name -> wrapper
    default_command,  \* config.default_command: <<>> (None) or <<wrapper>>
    regs,             \* the registration attempts so far, each with how it ended
    sys_argv,         \* sys.argv[1:] as main read it
    outcome,          \* how main ended: "running", "return", "sys.exit", or the uncaught exception
    status,           \* the process exit status
    invoked,          \* handler bodies that ran, in order: [name, nargs, args]
    parse_calls,      \* number of calls of parser.parse_known_args
    target,           \* the handler main resolved and went on to dispatch: <<>> or <<func>>
    output,           \* what was printed, in order
    default_container,\* config.default_container: <<>> (None) or <<string>>
    call,             \* the runner call being made: its arguments and what the children will do
    events,           \* the runner's child processes and log lines, in order
    ret,              \* the runner's return value: <<>> (None) or <<code>>
    raised            \* the exception the runner raised, "" when none

vars == <<pc, subparsers, parsers, default_command, regs, sys_argv, outcome, status,
          invoked, parse_calls, target, output, default_container, call, events, ret, raised>>

dispatchVars == <<subparsers, parsers, default_command, regs, sys_argv, outcome, status,
                  invoked, parse_calls, target, output>>
runnerVars == <<default_container, call, events, ret, raised>>

(***************************************************************************)
(* Bounds of the model.                                                    *)
(***************************************************************************)
MaxArgv == 2      \* process arguments after the program name
MaxArgs == 2      \* arguments handed to run / crun

(***************************************************************************)
(* String literals.                                                        *)
(***************************************************************************)
S_help == <<"h", "e", "l", "p">>
S_sh == <<"s", "h">>
S_up_db == <<"u", "p", "_", "d", "b">>
S_updb == <<"u", "p", "-", "d", "b">>
S_h == <<"-", "h">>
S_v == <<"-", "v">>
S_x == <<"x">>
S_web == <<"w", "e", "b">>
S_echo == <<"e", "c", "h", "o">>
S_ls == <<"l", "s">>
S_a_b == <<"a", " ", "b">>
S_c == <<"c">>
S_true == <<"t", "r", "u", "e">>
S_true_nl == <<"t", "r", "u", "e", "\n">>
S_false_nl == <<"f", "a", "l", "s", "e", "\n">>
S_arrow == <<" ", "-", ">", " ">>
S_docker_exec == <<"d", "o", "c", "k", "e", "r", " ", "e", "x", "e", "c", " ", "-", "i", "t", " ">>
S_docker_inspect ==
    <<"d", "o", "c", "k", "e", "r", " ", "i", "n", "s", "p", "e", "c", "t", " ",
      "-", "-", "f", "o", "r", "m", "a", "t", " ",
      "{", "{", ".", "S", "t", "a", "t", "e", ".", "R", "u", "n", "n", "i", "n", "g", "}", "}", " ">>

FuncNames == {S_sh, S_up_db}                       \* declared names of user handlers
Tokens == {S_help, S_sh, S_updb, S_h, S_v, S_x}    \* process argument tokens
OptionSets == {{}, {S_v}}                          \* option(...) descriptors of a command
Arities == {0, 1, 2}                               \* declared handler arities

RECURSIVE SeqsUpTo(_, _)
SeqsUpTo(S, n) ==
    IF n = 0 THEN {<<>>}
    ELSE LET shorter == SeqsUpTo(S, n - 1)
         IN shorter \cup {Append(s, x) : s \in {t \in shorter : Len(t) = n - 1}, x \in S}

(***************************************************************************)
(* Python helpers.                                                         *)
(***************************************************************************)
\* str.replace("_", "-")
Replace(s) == [i \in 1..Len(s) |-> IF s[i] = "_" THEN "-" ELSE s[i]]

\* Calling a plain function of declared arity `arity` with nargs positional
\* arguments: the body runs only when the counts agree, else TypeError.
CallOk(arity, nargs) == arity = nargs

(***************************************************************************)
(* Registration: the command(...) decorator applied to a handler.         *)
(***************************************************************************)
\* The registry state a decorator call reads and writes.
Registry(sp, ps, dc) == [subparsers |-> sp, parsers |-> ps, default_command |-> dc]

EmptyRegistry == Registry(<<>>, <<>>, <<>>)

\* parsers[name] = wrapper, subparsers' name -> parser map: a dict assignment.
DictSet(d, k, v) == (k :> v) @@ d

\* def wrapper(opts): one positional parameter.
WrapperArity == 1

\* The check for an earlier default left out.
DuplicateDefault_Unchecked(default, dc) == FALSE

\* if default: if config.default_command: raise ValueError(...)
DuplicateDefault(default, dc) == default /\ dc # <<>>

\* The state the registry is in when the decorator raises ValueError: the
\* sub-parser was added before the check, the registry entry comes after it.
RegistryAtRaise(r, name, func, flags) ==
    Registry(DictSet(r.subparsers, name, [func |-> func, flags |-> flags]),
             r.parsers, r.default_command)

\* The decorator's body.  error is "" when it returned the wrapper.
Decorate(r, fname, arity, flags, passthrough, default, hidden) ==
    LET name == Replace(fname)
        func == [command_name |-> name, arity |-> arity]
        wrapper == [command_name |-> name, passthrough |-> passthrough,
                    hidden |-> hidden, func |-> func]
        sp == DictSet(r.subparsers, name, [func |-> func, flags |-> flags])
    IN  IF DuplicateDefault(default, r.default_command)
        THEN [reg |-> RegistryAtRaise(r, name, func, flags),
              error |-> "ValueError", wrapper |-> wrapper]
        ELSE [reg |-> Registry(sp, DictSet(r.parsers, name, wrapper),
                               IF default THEN <<wrapper>> ELSE r.default_command),
              error |-> "", wrapper |-> wrapper]

\* @command(hidden=True) def help(): the registry once the module is imported.
Imported == Decorate(EmptyRegistry, S_help, 0, {}, FALSE, FALSE, TRUE)

\* The module-level name help: the wrapper the decorator returned.
help == Imported.wrapper

CurrentRegistry == Registry(subparsers, parsers, default_command)

\* One more handler is declared.  Handlers have distinct declared names, none
\* of them help: what add_parser does with a name it already has depends on the
\* Python version (an ArgumentError since 3.11, a silent replacement before).
Register(fname, arity, flags, passthrough, default, hidden) ==
    /\ pc = "register"
    /\ Replace(fname) \notin DOMAIN subparsers
    /\ LET d == Decorate(CurrentRegistry, fname, arity, flags, passthrough, default, hidden)
       IN  /\ subparsers' = d.reg.subparsers
           /\ parsers' = d.reg.parsers
           /\ default_command' = d.reg.default_command
           /\ regs' = Append(regs, [name |-> Replace(fname), default |-> default,
                                    error |-> d.error, wrapper |-> d.wrapper,
                                    before |-> default_command])
    /\ UNCHANGED <<pc, sys_argv, outcome, status, invoked, parse_calls, target, output>>
    /\ UNCHANGED runnerVars

(***************************************************************************)
(* argparse, as the module builds it: a top parser without options         *)
(* (add_help=False) whose only positional is the sub-command, and one      *)
(* sub-parser per add_parser call, with -h (argparse's default) and the    *)
(* command's own option flags (store_true flags here).                     *)
(***************************************************************************)
\* A token is an option string when it starts with "-" and is not "-" alone.
IsOptionString(t) == Len(t) >= 2 /\ t[1] = "-"

\* Index of the first token that is not an option string, 0 when none.
FirstPositional(args) ==
    LET idx == {i \in 1..Len(args) : ~IsOptionString(args[i])}
    IN  IF idx = {} THEN 0 ELSE CHOOSE i \in idx : \A j \in idx : i <= j

\* parser.parse_known_args(args): "error" is argparse's exit(2) on an invalid
\* choice, "help" a sub-parser's -h (print help, exit(0)), "parsed" the
\* (namespace, extras) pair; func is <<>> when the namespace has no func.
ParseKnownArgs(sp, args) ==
    LET i == FirstPositional(args)
        none == [kind |-> "parsed", func |-> <<>>, flags |-> {}, extras |-> args]
    IN  IF i = 0 THEN none
        ELSE IF args[i] \notin DOMAIN sp THEN [none EXCEPT !.kind = "error"]
        ELSE LET sub == sp[args[i]]
                 rest == SubSeq(args, i + 1, Len(args))
             IN  IF \E j \in 1..Len(rest) : rest[j] = S_h
                 THEN [none EXCEPT !.kind = "help"]
                 ELSE [kind |-> "parsed",
                       func |-> <<sub.func>>,
                       flags |-> {rest[j] : j \in 1..Len(rest)} \cap sub.flags,
                       extras |-> SubSeq(args, 1, i - 1)
                                  \o SelectSeq(rest, LAMBDA t : t \notin sub.flags)]

(***************************************************************************)
(* Calls.                                                                  *)
(***************************************************************************)
Line(kind) == [kind |-> kind, names |-> {}]

\* What the built-in help prints: the non-hidden registered names (the code
\* prints them sorted, one per line, after the usage banner).
HelpListing(ps) == [kind |-> "help", names |-> {n \in DOMAIN ps : ~ps[n].hidden}]

TypeError == [error |-> "TypeError", invoked |-> <<>>, output |-> <<>>]

\* func(*given): the handler's body runs when the argument count fits.  Only the
\* built-in help has a body the model looks into.
CallFunc(ps, func, given) ==
    IF CallOk(func.arity, Len(given))
    THEN [error |-> "",
          invoked |-> <<[name |-> func.command_name, given |-> given]>>,
          output |-> IF func = help.func THEN <<HelpListing(ps)>> ELSE <<>>]
    ELSE TypeError

\* wrapper(*given), where def wrapper(opts): return func(opts)
CallWrapper(ps, w, given) ==
    IF CallOk(WrapperArity, Len(given))
    THEN CallFunc(ps, w.func, <<given[1]>>)
    ELSE TypeError

(***************************************************************************)
(* main                                                                    *)
(***************************************************************************)
End(how, code, inv, nparse, out, tgt) ==
    [outcome |-> how, status |-> code, invoked |-> inv, parse_calls |-> nparse,
     output |-> out, target |-> tgt]

\* An uncaught exception ends the interpreter with status 1.
Uncaught(c, nparse, tgt) == End(c.error, 1, c.invoked, nparse, c.output, tgt)

\* Command resolution: default, args and command as the try/except leaves them.
Resolve(r, argv) ==
    LET default == IF r.default_command # <<>>
                   THEN <<r.default_command[1].command_name>> ELSE <<>>
    IN  IF Len(argv) >= 1 /\ argv[1] \in DOMAIN r.parsers
        THEN LET func == r.parsers[argv[1]]
             IN  [args |-> IF func.passthrough THEN Tail(argv) ELSE argv,
                  command |-> <<func.command_name>>]
        ELSE [args |-> argv, command |-> default]

\* if command and parsers[command].passthrough and len(sys.argv) > 1
PassthroughShortCircuit(r, command, argv) ==
    /\ command # <<>>
    /\ r.parsers[command[1]].passthrough
    /\ Len(argv) + 1 > 1

\* options = Namespace(); options.args = args; parsers[command](options); sys.exit(0)
Passthrough(r, command, args) ==
    LET options == [args |-> args, parsed |-> FALSE, flags |-> {}]
        w == r.parsers[command[1]]
        c == CallWrapper(r.parsers, w, <<options>>)
    IN  IF c.error # "" THEN Uncaught(c, 0, <<w.func>>)
        ELSE End("sys.exit", 0, c.invoked, 0, c.output, <<w.func>>)

\* The shortcut taken for an empty argument list only.
HelpShortcut_EmptyOnly(args) == IF args = <<>> THEN <<S_help>> ELSE args

\* if not args or (len(args) == 1 and args[0] == "-h"): args = ["help"]
HelpShortcut(args) ==
    IF args = <<>> \/ (Len(args) = 1 /\ args[1] = S_h) THEN <<S_help>> ELSE args

\* if extras: help(); sys.exit(1)
UsageError(r) ==
    LET c == CallWrapper(r.parsers, help, <<>>)
    IN  IF c.error # "" THEN Uncaught(c, 1, <<>>)
        ELSE End("sys.exit", 1, c.invoked, 1, c.output, <<>>)

\* The arity check and the call of options.func.
Invoke(r, p) ==
    IF p.func = <<>> THEN Uncaught([TypeError EXCEPT !.error = "AttributeError"], 1, <<>>)
    ELSE LET func == p.func[1]
             num_args == func.arity
             options == [args |-> p.extras, parsed |-> TRUE, flags |-> p.flags]
         IN  IF num_args > 1
             THEN End("sys.exit", 1, <<>>, 1, <<Line("error"), Line("info")>>, p.func)
             ELSE LET c == IF num_args = 1
                           THEN CallFunc(r.parsers, func, <<options>>)
                           ELSE CallFunc(r.parsers, func, <<>>)
                  IN  IF c.error # "" THEN Uncaught(c, 1, p.func)
                      ELSE End("return", 0, c.invoked, 1, c.output, p.func)

\* Structured dispatch: from parse_known_args to the end of main.
Structured(r, args) ==
    LET p == ParseKnownArgs(r.subparsers, args)
    IN  CASE p.kind = "error" ->
                End("sys.exit", 2, <<>>, 1, <<Line("usage"), Line("argparse_error")>>, <<>>)
          [] p.kind = "help" ->
                End("sys.exit", 0, <<>>, 1, <<Line("subparser_help")>>, <<>>)
          [] OTHER ->
                IF p.extras # <<>> THEN UsageError(r) ELSE Invoke(r, p)

\* main's dispatch on the process arguments argv (sys.argv[1:]).
MainResult(r, argv) ==
    LET res == Resolve(r, argv)
    IN  IF PassthroughShortCircuit(r, res.command, argv)
        THEN Passthrough(r, res.command, res.args)
        ELSE Structured(r, HelpShortcut(res.args))

Main(argv, container) ==
    /\ pc = "register"
    /\ pc' = "done"
    /\ sys_argv' = argv
    /\ default_container' = container
    /\ LET m == MainResult(CurrentRegistry, argv)
       IN  /\ outcome' = m.outcome
           /\ status' = m.status
           /\ invoked' = m.invoked
           /\ parse_calls' = m.parse_calls
           /\ target' = m.target
           /\ output' = m.output
    /\ UNCHANGED <<subparsers, parsers, default_command, regs>>
    /\ UNCHANGED <<call, events, ret, raised>>

Init ==
    /\ pc = "register"
    /\ subparsers = Imported.reg.subparsers
    /\ parsers = Imported.reg.parsers
    /\ default_command = Imported.reg.default_command
    /\ regs = <<>>
    /\ sys_argv = <<>>
    /\ outcome = "running"
    /\ status = -1
    /\ invoked = <<>>
    /\ parse_calls = 0
    /\ target = <<>>
    /\ output = <<>>
    /\ default_container = <<>>
    /\ call = <<>>
    /\ events = <<>>
    /\ ret = <<>>
    /\ raised = ""

Next ==
    \/ \E fname \in FuncNames, arity \in Arities, flags \in OptionSets,
          passthrough \in BOOLEAN, default \in BOOLEAN :
            Register(fname, arity, flags, passthrough, default, FALSE)
    \/ \E argv \in SeqsUpTo(Tokens, MaxArgv), container \in {<<>>, <<S_web>>} :
            Main(argv, container)

Spec == Init /\ [][Next]_vars

(***************************************************************************)
(* The runners: run and crun.                                              *)
(***************************************************************************)
Whitespace == {" ", "\n", "\t"}

\* " " in arg
HasSpace(arg) == \E i \in 1..Len(arg) : arg[i] = " "

\* No argument quoted.
Quote_Never(arg) == arg

\* f'"{arg}"' if " " in arg else arg
Quote(arg) == IF HasSpace(arg) THEN <<"\"">> \o arg \o <<"\"">> ELSE arg

\* sep.join(parts)
RECURSIVE Join(_, _)
Join(sep, parts) ==
    IF parts = <<>> THEN <<>>
    ELSE IF Len(parts) = 1 THEN parts[1]
    ELSE Join(sep, SubSeq(parts, 1, Len(parts) - 1)) \o sep \o parts[Len(parts)]

\* args = " ".join([...quoted...]) if args else "": args is None (<<>>) or a list (<<list>>).
JoinArgs(args) ==
    IF args # <<>> /\ args[1] # <<>>
    THEN Join(<<" ">>, [i \in 1..Len(args[1]) |-> Quote(args[1][i])])
    ELSE <<>>

\* command = f"{cmd} {args}"
CommandLine(cmd, args) == cmd \o <<" ">> \o JoinArgs(args)

Ev(kind, text, code) == [kind |-> kind, text |-> text, argv |-> <<>>, code |-> code]

\* run(cmd, args, echo, logstatus), the child exiting with `code`.
RunEffect(cmd, args, echo, logstatus, code) ==
    LET command == CommandLine(cmd, args)
    IN  [events |-> (IF echo THEN <<Ev("logcmd", S_arrow \o command, 0)>> ELSE <<>>)
                    \o <<Ev("exec", command, 0)>>
                    \o (IF logstatus
                        THEN <<Ev("log", <<>>, 0),
                               IF code # 0 THEN Ev("error", <<>>, code) ELSE Ev("info", <<>>, 0)>>
                        ELSE <<>>),
         ret |-> <<code>>,
         raised |-> ""]

\* str.strip()
RECURSIVE LStrip(_)
LStrip(s) == IF s # <<>> /\ s[1] \in Whitespace THEN LStrip(Tail(s)) ELSE s

RECURSIVE RStrip(_)
RStrip(s) ==
    IF s # <<>> /\ s[Len(s)] \in Whitespace THEN RStrip(SubSeq(s, 1, Len(s) - 1)) ELSE s

Strip(s) == RStrip(LStrip(s))

\* str.split(): the maximal runs of non-whitespace characters.
RECURSIVE SplitFrom(_, _, _)
SplitFrom(s, word, acc) ==
    IF s = <<>> THEN (IF word = <<>> THEN acc ELSE Append(acc, word))
    ELSE IF s[1] \in Whitespace
         THEN SplitFrom(Tail(s), <<>>, IF word = <<>> THEN acc ELSE Append(acc, word))
         ELSE SplitFrom(Tail(s), Append(word, s[1]), acc)

Split(s) == SplitFrom(s, <<>>, <<>>)

\* container = config.default_container when container is None
ResolveContainer(dc, container) == IF container = <<>> THEN dc ELSE container

\* if container is None: ...; if not container: raise AttributeError(...)
MissingContainer(dc, container) ==
    container = <<>> /\ (dc = <<>> \/ dc[1] = <<>>)

\* The comparison made on the raw output, without strip().
IsRunning_Unstripped(text) == text = S_true

\* running = output == "true", on the decoded, stripped output
IsRunning(text) == Strip(text) = S_true

\* The except clause: only subprocess.CalledProcessError is caught.
Caught(kind) == kind = "CalledProcessError"

\* crun(cmd, args, container, echo, logstatus) with config.default_container = dc;
\* q is what the state query does, code the exit code of the exec'd child.
CrunEffect(dc, cmd, args, container, echo, logstatus, q, code) ==
    IF MissingContainer(dc, container)
    THEN [events |-> <<>>, ret |-> <<>>, raised |-> "AttributeError"]
    ELSE LET c == ResolveContainer(dc, container)[1]
             query == [Ev("query", <<>>, 0) EXCEPT !.argv = Split(S_docker_inspect \o c)]
             running == q.kind = "output" /\ IsRunning(q.text)
         IN  IF q.kind # "output" /\ ~Caught(q.kind)
             THEN [events |-> <<query>>, ret |-> <<>>, raised |-> q.kind]
             ELSE IF ~running
             THEN [events |-> <<query, Ev("error", c, 0)>>, ret |-> <<>>, raised |-> ""]
             ELSE LET r == RunEffect(S_docker_exec \o c \o <<" ">> \o cmd, args,
                                     echo, logstatus, code)
                  IN  [r EXCEPT !.events = <<query>> \o r.events]

Cmds == {S_echo, S_ls}
ArgPool == {S_a_b, S_c, <<>>}
ArgLists == {<<>>} \cup {<<l>> : l \in SeqsUpTo(ArgPool, MaxArgs)}
Containers == {<<>>, <<<<>>>>, <<S_web>>}
ExitCodes == {0, 1, 2}
Output(text) == [kind |-> "output", text |-> text]
Failure(kind) == [kind |-> kind, text |-> <<>>]
QueryResults ==
    {Output(S_true_nl), Output(S_true), Output(S_false_nl), Output(<<>>),
     Failure("CalledProcessError"), Failure("FileNotFoundError")}

Finish(e) ==
    /\ pc' = "ran"
    /\ events' = e.events
    /\ ret' = e.ret
    /\ raised' = e.raised
    /\ UNCHANGED default_container
    /\ UNCHANGED dispatchVars

RunCall(cmd, args, echo, logstatus, code) ==
    /\ pc = "runner"
    /\ call' = <<[op |-> "run", cmd |-> cmd, args |-> args, container |-> <<>>,
                  echo |-> echo, logstatus |-> logstatus, q |-> Output(<<>>),
                  code |-> code]>>
    /\ Finish(RunEffect(cmd, args, echo, logstatus, code))

CrunCall(cmd, args, container, echo, logstatus, q, code) ==
    /\ pc = "runner"
    /\ call' = <<[op |-> "crun", cmd |-> cmd, args |-> args, container |-> container,
                  echo |-> echo, logstatus |-> logstatus, q |-> q, code |-> code]>>
    /\ Finish(CrunEffect(default_container, cmd, args, container, echo, logstatus, q, code))

\* A handler is running, after main configured config.default_container.
RunnerInit ==
    /\ pc = "runner"
    /\ subparsers = Imported.reg.subparsers
    /\ parsers = Imported.reg.parsers
    /\ default_command = Imported.reg.default_command
    /\ regs = <<>>
    /\ sys_argv = <<>>
    /\ outcome = "running"
    /\ status = -1
    /\ invoked = <<>>
    /\ parse_calls = 0
    /\ target = <<>>
    /\ output = <<>>
    /\ default_container \in Containers
    /\ call = <<>>
    /\ events = <<>>
    /\ ret = <<>>
    /\ raised = ""

RunnerNext ==
    \/ \E cmd \in Cmds, args \in ArgLists, echo \in BOOLEAN, logstatus \in BOOLEAN,
          code \in ExitCodes :
            RunCall(cmd, args, echo, logstatus, code)
    \/ \E cmd \in Cmds, args \in ArgLists, container \in Containers, echo \in BOOLEAN,
          logstatus \in BOOLEAN, q \in QueryResults, code \in ExitCodes :
            CrunCall(cmd, args, container, echo, logstatus, q, code)

RunnerSpec == RunnerInit /\ [][RunnerNext]_vars

(***************************************************************************)
(* Properties of registration and dispatch, stated of Spec.                *)
(***************************************************************************)
RegIdx == 1..Len(regs)
Printed(kind) == \E i \in 1..Len(output) : output[i].kind = kind
RawOptions(args) == [args |-> args, parsed |-> FALSE, flags |-> {}]

\* C1: at most one registered command is ever the default: the first
\* registration with default=True becomes config.default_command and stays it;
\* every later registration with default=True fails with ValueError, during
\* registration (before main has parsed anything), and leaves
\* config.default_command as it was.
C1_SingleDefault ==
    /\ \A i \in RegIdx :
         LET g == regs[i]
         IN  /\ (g.default /\ g.before = <<>>) =>
                    (g.error = "" /\ default_command = <<g.wrapper>>)
             /\ (g.default /\ g.before # <<>>) =>
                    (g.error = "ValueError" /\ default_command = g.before)
             /\ ~g.default => g.error = ""
    /\ Cardinality({i \in RegIdx : regs[i].default /\ regs[i].error = ""}) <= 1
    /\ (default_command # <<>>) <=> (\E i \in RegIdx : regs[i].default)
    /\ pc = "register" => (parse_calls = 0 /\ outcome = "running")

\* A second default=True registration was attempted and failed.
C1_Witness ==
    \E i, j \in RegIdx :
        /\ i < j
        /\ regs[i].default /\ regs[j].default
        /\ regs[j].error = "ValueError"
        /\ default_command = <<regs[i].wrapper>>

\* C2: when the first argument names a passthrough command, main invokes that
\* handler exactly once with an options object whose args are the remaining
\* arguments, never calls parse_known_args, and exits with status 0.
C2_Passthrough ==
    (/\ pc = "done"
     /\ sys_argv # <<>>
     /\ sys_argv[1] \in DOMAIN parsers
     /\ parsers[sys_argv[1]].passthrough)
    => /\ invoked = <<[name |-> sys_argv[1], given |-> <<RawOptions(Tail(sys_argv))>>]>>
       /\ parse_calls = 0
       /\ outcome = "sys.exit"
       /\ status = 0

\* What parse_known_args returned in this run of main.
Parsed == ParseKnownArgs(subparsers, HelpShortcut(Resolve(CurrentRegistry, sys_argv).args))

\* C3: in structured dispatch, when parsing leaves unrecognized extra
\* arguments, the help listing is printed, the process exits with status 1 and
\* the selected command's handler is not invoked.
C3_ExtrasUsageError ==
    (/\ pc = "done"
     /\ parse_calls = 1
     /\ Parsed.kind = "parsed"
     /\ Parsed.extras # <<>>)
    => /\ Printed("help")
       /\ status = 1
       /\ \A i \in 1..Len(invoked) : invoked[i].name = S_help

\* C4: a handler of arity 2 or more registers without error, and dispatching to
\* it ends in an error and exit status 1 without the handler running; a
\* dispatched handler of arity 1 runs with the options object, one of arity 0
\* runs with no arguments (passthrough or not).
C4_Arity ==
    /\ \A i \in RegIdx :
         (regs[i].wrapper.func.arity >= 2 /\ ~(regs[i].default /\ regs[i].before # <<>>))
            => regs[i].error = ""
    /\ (pc = "done" /\ target # <<>>) =>
         LET f == target[1]
         IN  /\ f.arity >= 2 => (status = 1 /\ invoked = <<>> /\ outcome # "return")
             /\ f.arity = 1 => (/\ Len(invoked) = 1
                                /\ invoked[1].name = f.command_name
                                /\ Len(invoked[1].given) = 1)
             /\ f.arity = 0 => invoked = <<[name |-> f.command_name, given |-> <<>>]>>

HelpOnly == invoked = <<[name |-> S_help, given |-> <<>>]>>
PassthroughDefault == default_command # <<>> /\ default_command[1].passthrough

\* C7 (as claimed): with no arguments, or with the single argument -h, main
\* invokes the built-in help and no other handler and ends with status 0,
\* whatever the registry holds.
C7_HelpAlways ==
    (pc = "done" /\ (sys_argv = <<>> \/ sys_argv = <<S_h>>))
    => (HelpOnly /\ status = 0)

\* C7 (amended): with no arguments main invokes the built-in help and no other
\* handler and ends with status 0, whatever the registry holds; with the single
\* argument -h it does the same unless the default command is passthrough: then
\* main dispatches -h to the default command (no parsing, help is not invoked,
\* and a handler that runs is the default's, with args = ["-h"], ending in
\* status 0).
C7_HelpShortcut ==
    (pc = "done" /\ (sys_argv = <<>> \/ sys_argv = <<S_h>>))
    => IF sys_argv = <<S_h>> /\ PassthroughDefault
       THEN /\ parse_calls = 0
            /\ ~Printed("help")
            /\ target = <<default_command[1].func>>
            /\ invoked # <<>> =>
                 /\ invoked = <<[name |-> default_command[1].command_name,
                                 given |-> <<RawOptions(<<S_h>>)>>]>>
                 /\ outcome = "sys.exit"
                 /\ status = 0
       ELSE /\ HelpOnly
            /\ Printed("help")
            /\ outcome = "return"
            /\ status = 0

\* -h alone went to a passthrough default command, not to help.
C7_Witness ==
    /\ pc = "done"
    /\ sys_argv = <<S_h>>
    /\ PassthroughDefault
    /\ invoked # <<>>
    /\ invoked[1].name = default_command[1].command_name

\* C8: with a default command registered and a first argument that is not a
\* registered command name, main dispatches to the default command's handler,
\* passthrough or not.
C8_DefaultFallback ==
    (/\ pc = "done"
     /\ default_command # <<>>
     /\ sys_argv # <<>>
     /\ sys_argv[1] \notin DOMAIN parsers)
    => target = <<default_command[1].func>>

\* C10: after any registration attempts, failed ones included, the names with
\* a sub-parser are exactly the names in the registry, and main never
\* dispatches to a command whose registration failed.
C10_RegistryCoupled ==
    /\ DOMAIN subparsers = DOMAIN parsers
    /\ \A i \in RegIdx :
         regs[i].error # "" =>
            (/\ target # <<regs[i].wrapper.func>>
             /\ \A k \in 1..Len(invoked) : invoked[k].name # regs[i].name)

(***************************************************************************)
(* Properties of the runners, stated of RunnerSpec.                        *)
(***************************************************************************)
Chars(s) == {s[i] : i \in 1..Len(s)}

\* The shell line of the description: the base command, one space, then the
\* arguments in order separated by single spaces, an argument with a space in
\* it between double quotes.
RECURSIVE Spaced(_)
Spaced(l) ==
    IF l = <<>> THEN <<>>
    ELSE LET a == IF " " \in Chars(l[1]) THEN <<"\"">> \o l[1] \o <<"\"">> ELSE l[1]
         IN  IF Len(l) = 1 THEN a ELSE a \o <<" ">> \o Spaced(Tail(l))

ShellLine(cmd, args) == cmd \o <<" ">> \o (IF args = <<>> THEN <<>> ELSE Spaced(args[1]))

EventsOf(kind) == {i \in 1..Len(events) : events[i].kind = kind}
Called(op) == pc = "ran" /\ call[1].op = op

Unconfigured == call[1].container = <<>> /\ default_container \in {<<>>, <<<<>>>>}
ContainerName == IF call[1].container # <<>> THEN call[1].container[1] ELSE default_container[1]
ReportsTrue == call[1].q.kind = "output" /\ call[1].q.text \in {S_true, S_true_nl}

\* C5: crun without a container argument and without a configured default
\* raises before any query or execution; with a container whose state query
\* reports something other than "true" it logs an error, returns None, raises
\* nothing and runs nothing; the command is run, as
\* docker exec -it <container> <cmd>, only when the query reported "true",
\* and crun then returns that run's exit code.
C5_Crun ==
    Called("crun") =>
        /\ Unconfigured => (raised = "AttributeError" /\ events = <<>> /\ ret = <<>>)
        /\ (~Unconfigured /\ call[1].q.kind = "output" /\ ~ReportsTrue) =>
              /\ raised = ""
              /\ ret = <<>>
              /\ EventsOf("error") # {}
              /\ EventsOf("exec") = {}
        /\ (~Unconfigured /\ ReportsTrue) => EventsOf("exec") # {}
        /\ \A i \in EventsOf("exec") :
              /\ ~Unconfigured /\ ReportsTrue
              /\ EventsOf("exec") = {i}
              /\ \A k \in EventsOf("query") : k < i
              /\ events[i].text =
                   ShellLine(S_docker_exec \o ContainerName \o <<" ">> \o call[1].cmd,
                             call[1].args)
              /\ ret = <<call[1].code>>
              /\ raised = ""

\* crun ran the command in a container reported running, and the child failed.
C5_Witness ==
    /\ Called("crun")
    /\ call[1].container = <<>>
    /\ default_container = <<S_web>>
    /\ call[1].q.text = S_true_nl
    /\ call[1].code # 0
    /\ EventsOf("exec") # {}
    /\ ret = <<call[1].code>>

\* C6: any failure of the container-state query (a non-zero exit, or the query
\* process not running at all) is treated as not running: crun logs the error
\* and returns None, and raises nothing.
C6_QueryFailure ==
    (Called("crun") /\ ~Unconfigured /\ call[1].q.kind # "output")
    => (raised = "" /\ ret = <<>> /\ EventsOf("error") # {})

\* C9: run executes exactly cmd, a space, and the arguments joined by single
\* spaces with the space-containing ones in double quotes (run("echo",
\* ["a b", "c"]) executes echo "a b" c); with echo that line is logged before it
\* is executed; run returns the child's exit code, zero or not, and raises
\* nothing.
C9_RunLine ==
    Called("run") =>
        LET line == ShellLine(call[1].cmd, call[1].args)
            first == IF call[1].echo THEN 2 ELSE 1
        IN  /\ EventsOf("exec") = {first}
            /\ events[first].text = line
            /\ call[1].echo => (events[1].kind = "logcmd" /\ events[1].text = S_arrow \o line)
            /\ ~call[1].echo => EventsOf("logcmd") = {}
            /\ ret = <<call[1].code>>
            /\ raised = ""
            /\ (call[1].cmd = S_echo /\ call[1].args = <<<<S_a_b, S_c>>>>) =>
                  events[first].text =
                     <<"e", "c", "h", "o", " ", "\"", "a", " ", "b", "\"", " ", "c">>

\* run("echo", ["a b", "c"]) with echo on and a failing child.
C9_Witness ==
    /\ Called("run")
    /\ call[1].cmd = S_echo
    /\ call[1].args = <<<<S_a_b, S_c>>>>
    /\ call[1].echo
    /\ call[1].code # 0
    /\ ret = <<call[1].code>>

====
